---- MODULE Spec2Model ----
(***************************************************************************)
(* Model of lh123/brainfuck-rust: the frontend (ir.rs compile), the        *)
(* peephole optimizer (ir.rs optimize_ir), the reference interpreter       *)
(* (inter.rs Interpreter::run) and the x86-64 routine emitted by jit.rs    *)
(* (VM::compile, VM::run and the host callbacks).                          *)
(*                                                                         *)
(* Machine integers keep their width.  TLC's integers stop at 2^31 - 1, so *)
(* every u8/u32/usize/64-bit register value is held as four base-65536     *)
(* limbs, least significant first; a u32 is such a value with the two      *)
(* upper limbs zero.                                                       *)
(*                                                                         *)
(* Long inputs are held run-length encoded.  A source element [ch, n] is   *)
(* n consecutive copies of the character ch; an element [op, x, n] of      *)
(* `code` is n consecutive equal elements op(x) of the Vec<BfIR>.  Indices  *)
(* (jump operands, pc, code.len()) are indices of the Vec, not of the      *)
(* encoding.                                                               *)
(***************************************************************************)
EXTENDS Integers, Sequences, FiniteSets, TLC

(***************************************************************************)
(* Machine arithmetic                                                      *)
(***************************************************************************)
Base == 65536

\* the machine value of a small literal k, 0 <= k < 2^31
Num(k) == <<k % Base, (k \div Base) % Base, 0, 0>>

Zero == Num(0)
One == Num(1)

\* 2^32, one past the largest u32
Two32 == <<0, 0, 1, 0>>
\* u32::MAX
U32Max == <<Base - 1, Base - 1, 0, 0>>

\* 64-bit addition: the wrapped sum v and the carry out c
AddC(a, b) ==
    LET s1 == a[1] + b[1]
        s2 == a[2] + b[2] + (s1 \div Base)
        s3 == a[3] + b[3] + (s2 \div Base)
        s4 == a[4] + b[4] + (s3 \div Base)
    IN  [v |-> <<s1 % Base, s2 % Base, s3 % Base, s4 % Base>>, c |-> s4 \div Base]

\* 64-bit subtraction a - b: the wrapped difference v and the borrow out c
SubB(a, b) ==
    LET d1 == a[1] - b[1]
        b1 == IF d1 < 0 THEN 1 ELSE 0
        d2 == a[2] - b[2] - b1
        b2 == IF d2 < 0 THEN 1 ELSE 0
        d3 == a[3] - b[3] - b2
        b3 == IF d3 < 0 THEN 1 ELSE 0
        d4 == a[4] - b[4] - b3
        b4 == IF d4 < 0 THEN 1 ELSE 0
    IN  [v |-> <<d1 % Base, d2 % Base, d3 % Base, d4 % Base>>, c |-> b4]

Add(a, b) == AddC(a, b).v
Sub(a, b) == SubB(a, b).v

\* unsigned comparison
Lt(a, b) == SubB(a, b).c = 1
Le(a, b) == ~Lt(b, a)

Min(a, b) == IF Lt(a, b) THEN a ELSE b

\* `as u32` of a usize: keep the low 32 bits
AsU32(a) == <<a[1], a[2], 0, 0>>

\* does a usize/u64 value fit a u32
FitsU32(a) == a[3] = 0 /\ a[4] = 0

\* u8 view of a value: its low 8 bits, as a plain integer 0..255
Low8(a) == a[1] % 256

\* u32::wrapping_add
WrapAdd32(a, b) == AsU32(Add(a, b))

\* u8::wrapping_add, u8::wrapping_sub on plain integers 0..255
WrapAdd8(a, b) == (a + b) % 256
WrapSub8(a, b) == (a - b) % 256

(***************************************************************************)
(* BfIR and the run-length encoded Vec<BfIR>                               *)
(***************************************************************************)
ArithOps == {"AddVal", "SubVal", "AddPtr", "SubPtr"}
ValOps == {"AddVal", "SubVal"}
Ops == ArithOps \cup {"GetByte", "PutByte", "Jz", "Jnz"}

\* n consecutive copies of the instruction op(x)
Ins(op, x, n) == [op |-> op, x |-> x, n |-> n]

RECURSIVE VecLen(_)
\* code.len()
VecLen(code) ==
    IF code = <<>> THEN Zero ELSE Add(Head(code).n, VecLen(Tail(code)))

RECURSIVE SetAt(_, _, _)
\* code[idx] = ins, for idx < code.len(); a run that holds idx is split
SetAt(code, idx, ins) ==
    IF code = <<>> THEN <<>>
    ELSE LET s == Head(code) IN
         IF Lt(idx, s.n)
         THEN LET rest == Sub(Sub(s.n, idx), One)
                  before == IF idx = Zero THEN <<>> ELSE <<[s EXCEPT !.n = idx]>>
                  after == IF rest = Zero THEN <<>> ELSE <<[s EXCEPT !.n = rest]>>
              IN  before \o <<ins>> \o after \o Tail(code)
         ELSE <<s>> \o SetAt(Tail(code), Sub(idx, s.n), ins)

RECURSIVE At(_, _)
\* code[idx], for idx < code.len(): the run `s` that holds the element, and
\* `rem`, the number of elements of that run from idx to its end (rem >= 1)
At(code, idx) ==
    LET s == Head(code) IN
    IF Lt(idx, s.n) THEN [s |-> s, rem |-> Sub(s.n, idx)]
    ELSE At(Tail(code), Sub(idx, s.n))

(***************************************************************************)
(* ir.rs: compile                                                          *)
(***************************************************************************)
Chars == {"+", "-", ">", "<", ",", ".", "[", "]", "\n", "#"}

\* the opcode pushed for an arithmetic or I/O character
CharOp(ch) ==
    CASE ch = "+" -> "AddVal"
      [] ch = "-" -> "SubVal"
      [] ch = ">" -> "AddPtr"
      [] ch = "<" -> "SubPtr"
      [] ch = "," -> "GetByte"
      [] ch = "." -> "PutByte"

\* an arithmetic instruction pushed with operand 0
CharOperandZero(ch) == Zero

\* the operand pushed with it: 1 for the arithmetic four; GetByte and
\* PutByte have none
CharOperand(ch) == IF ch \in {",", "."} THEN Zero ELSE One

\* enum CompileErrorKind
CompileErrorKinds == {"UncloseLeftBracket", "UnexpectedRightBracket"}

\* impl Display for CompileErrorKind
CompileErrorKind_fmt(kind) ==
    CASE kind = "UncloseLeftBracket" -> "Unclosed left bracket"
      [] kind = "UnexpectedRightBracket" -> "Unclosed left bracket"

\* impl Display for CompileError: "{} at line {}:{}", the pieces in order
CompileError_fmt(e) ==
    <<CompileErrorKind_fmt(e.kind), " at line ", e.line, ":", e.col>>

\* u32 `+=` of n unit steps: the value, and whether some step overflowed
Bump(v, n) ==
    LET s == Add(v, n) IN [v |-> AsU32(s), ovf |-> ~FitsU32(s)]

\* state of the scan before the first character
ScanInit ==
    [code |-> <<>>, stk |-> <<>>, line |-> Zero, col |-> Zero,
     res |-> "scan", ovf |-> FALSE, err |-> <<>>]

\* the loop body of compile applied to n consecutive characters ch; the
\* characters with n > 1 are those whose body does not depend on the scan
\* position: "+", "-", ">", "<", "\n" and the ignored characters
ScanStep(st, ch, n) ==
    IF st.res # "scan" THEN st
    ELSE
    LET c == Bump(st.col, IF ch = "\n" THEN One ELSE n)
        l == Bump(st.line, n)
        len == VecLen(st.code)
    IN
    CASE ch = "\n" ->
            [st EXCEPT !.line = l.v, !.col = Zero,
                       !.ovf = st.ovf \/ c.ovf \/ l.ovf]
      [] ch \in {"+", "-", ">", "<", ",", "."} ->
            [st EXCEPT !.col = c.v, !.ovf = st.ovf \/ c.ovf,
                       !.code = Append(st.code,
                                       Ins(CharOp(ch), CharOperand(ch), n))]
      [] ch = "[" ->
            [st EXCEPT !.col = c.v, !.ovf = st.ovf \/ c.ovf,
                       !.stk = Append(st.stk,
                                      [pos |-> AsU32(len), line |-> st.line, col |-> c.v]),
                       !.code = Append(st.code, Ins("Jz", Zero, One))]
      [] ch = "]" ->
            IF st.stk = <<>>
            THEN [st EXCEPT !.col = c.v, !.ovf = st.ovf \/ c.ovf,
                            !.res = "err",
                            !.err = [kind |-> "UnexpectedRightBracket",
                                     line |-> st.line, col |-> c.v]]
            ELSE LET top == st.stk[Len(st.stk)] IN
                 [st EXCEPT !.col = c.v, !.ovf = st.ovf \/ c.ovf,
                            !.stk = SubSeq(st.stk, 1, Len(st.stk) - 1),
                            !.code = Append(SetAt(st.code, top.pos,
                                                  Ins("Jz", AsU32(len), One)),
                                            Ins("Jnz", top.pos, One))]
      [] OTHER ->
            [st EXCEPT !.col = c.v, !.ovf = st.ovf \/ c.ovf]

RECURSIVE Scan(_, _)
\* the for loop of compile over the whole source
Scan(st, s) ==
    IF s = <<>> THEN st ELSE Scan(ScanStep(st, Head(s).ch, Head(s).n), Tail(s))

\* compile reporting the bottom of stk, the first '[' opened
compileFirstOpened(s) ==
    LET st == Scan(ScanInit, s) IN
    IF st.res = "err" THEN [res |-> "err", code |-> <<>>, err |-> st.err, ovf |-> st.ovf]
    ELSE IF st.stk # <<>>
    THEN LET top == st.stk[1] IN
         [res |-> "err", code |-> <<>>, ovf |-> st.ovf,
          err |-> [kind |-> "UncloseLeftBracket", line |-> top.line, col |-> top.col]]
    ELSE [res |-> "ok", code |-> st.code, err |-> <<>>, ovf |-> st.ovf]

\* compile(src): [res |-> "ok", code], [res |-> "err", err], and ovf when a
\* u32 position counter overflowed on the way (a panic in a build with
\* overflow checks, a wrapped counter otherwise)
compile(s) ==
    LET st == Scan(ScanInit, s) IN
    IF st.res = "err" THEN [res |-> "err", code |-> <<>>, err |-> st.err, ovf |-> st.ovf]
    ELSE IF st.stk # <<>>
    THEN LET top == st.stk[Len(st.stk)] IN
         [res |-> "err", code |-> <<>>, ovf |-> st.ovf,
          err |-> [kind |-> "UncloseLeftBracket", line |-> top.line, col |-> top.col]]
    ELSE [res |-> "ok", code |-> st.code, err |-> <<>>, ovf |-> st.ovf]

(***************************************************************************)
(* ir.rs: optimize_ir                                                      *)
(***************************************************************************)
\* the sum kept at the largest operand instead of wrapping (saturating_add)
SaturatingAddRun(op, x, d, n) ==
    LET t == Add(x, IF n = One THEN d ELSE n) IN
    IF op \in ValOps THEN Min(t, Num(255)) ELSE Min(t, U32Max)

\* n-fold x.wrapping_add(d) in the operand width of op: u8 for AddVal and
\* SubVal, u32 for AddPtr and SubPtr.  Elements of a run longer than one are
\* the unit operands pushed by compile, so the n-fold sum adds n.
WrapAddRun(op, x, d, n) ==
    LET t == IF n = One THEN d ELSE n IN
    IF op \in ValOps THEN Num(WrapAdd8(Low8(x), Low8(t))) ELSE WrapAdd32(x, t)

RECURSIVE FoldWhile(_, _, _)
\* the while loop of fold_ir!: add the operands of the following elements of
\* the same opcode; `rest` is what is left at index j
FoldWhile(code, op, x) ==
    IF code # <<>> /\ Head(code).op = op
    THEN FoldWhile(Tail(code), op, WrapAddRun(op, x, Head(code).x, Head(code).n))
    ELSE [x |-> x, rest |-> code]

\* fold_ir! with the scan starting at i instead of i + 1: the first
\* operand is added twice
fold_irFromI(code) == FoldWhile(code, Head(code).op, Head(code).x)

\* fold_ir!: code[i] starts a run; its first element gives the initial x
fold_ir(code) ==
    LET s == Head(code)
        more == IF s.n = One THEN Tail(code)
                ELSE <<[s EXCEPT !.n = Sub(s.n, One)]>> \o Tail(code)
    IN  FoldWhile(more, s.op, s.x)

RECURSIVE OptLoop(_, _, _)
\* the `while i < len` loop of optimize_ir: code is what is left from index
\* i, out is code[0..pc] as written so far, stk the stack of Jz positions.
\* Every write goes to an index <= i, so writing in place and writing to
\* `out` give the same Vec after truncate(pc).
OptLoop(code, out, stk) ==
    IF code = <<>> THEN [code |-> out, panic |-> FALSE]
    ELSE
    LET s == Head(code)
        pc == VecLen(out)
    IN
    CASE s.op \in ArithOps ->
            LET f == fold_ir(code) IN
            OptLoop(f.rest, Append(out, Ins(s.op, f.x, One)), stk)
      [] s.op \in {"GetByte", "PutByte"} ->
            OptLoop(Tail(code), Append(out, s), stk)
      [] s.op = "Jz" ->
            OptLoop(Tail(code), Append(out, Ins("Jz", Zero, One)), Append(stk, pc))
      [] s.op = "Jnz" ->
            IF stk = <<>> THEN [code |-> out, panic |-> TRUE]
            ELSE LET jz_pos == AsU32(stk[Len(stk)]) IN
                 OptLoop(Tail(code),
                         SetAt(Append(out, Ins("Jnz", jz_pos, One)),
                               jz_pos, Ins("Jz", AsU32(pc), One)),
                         SubSeq(stk, 1, Len(stk) - 1))

\* optimize_ir(&mut code): the Vec afterwards; panic when stk.pop().unwrap()
\* meets an empty stack
optimize_ir(code) == OptLoop(code, <<>>, <<>>)

(***************************************************************************)
(* The tape (Box<[u8]> of MEM_SIZE zeroed cells), held sparsely: the       *)
(* function lists the cells that are not zero                              *)
(***************************************************************************)
MEM_SIZE == Num(4 * 1024 * 1024)

ZeroedTape == [p \in {} |-> 0]

\* memory[p]
Cell(memory, p) == IF p \in DOMAIN memory THEN memory[p] ELSE 0

\* memory[p] = v
Store(memory, p, v) ==
    IF v = 0 THEN [q \in DOMAIN memory \ {p} |-> memory[q]]
    ELSE [q \in DOMAIN memory \cup {p} |-> IF q = p THEN v ELSE memory[q]]

(***************************************************************************)
(* inter.rs: the arms of Interpreter::run.  An arm is applied to the m     *)
(* equal elements of the Vec that follow pc in a run (m = 1 for a single   *)
(* element); for m > 1 the elements are the unit operands pushed by        *)
(* compile.  One step holds the iteration that returns the error alone,    *)
(* or else the iterations of the run that succeed, `done` of them.         *)
(***************************************************************************)
\* BfIR::AddVal(x): memory[ptr] = memory[ptr].wrapping_add(x), m times
ExecAddVal(v, x, m) == WrapAdd8(v, (Low8(x) * Low8(m)) % 256)

\* BfIR::SubVal(x): memory[ptr] = memory[ptr].wrapping_sub(x), m times
ExecSubVal(v, x, m) == WrapSub8(v, (Low8(x) * Low8(m)) % 256)

\* AddPtr letting the pointer go one cell past the tape (`<` for `<=`)
ExecAddPtrOffByOne(ptr, x, m) ==
    IF Lt(Sub(AsU32(MEM_SIZE), ptr), x)
    THEN [fault |-> TRUE, ptr |-> ptr, done |-> Zero]
    ELSE IF m = One
    THEN [fault |-> FALSE, ptr |-> Add(ptr, x), done |-> One]
    ELSE LET k == Min(m, Sub(AsU32(MEM_SIZE), ptr)) IN
         [fault |-> FALSE, ptr |-> Add(ptr, k), done |-> k]

\* AddPtr moving the pointer first and checking it afterwards
ExecAddPtrCheckAfter(ptr, x, m) ==
    IF Le(Sub(AsU32(MEM_SIZE), ptr), x)
    THEN [fault |-> TRUE, ptr |-> AsU32(Add(ptr, x)), done |-> Zero]
    ELSE IF m = One
    THEN [fault |-> FALSE, ptr |-> Add(ptr, x), done |-> One]
    ELSE LET k == Min(m, Sub(Sub(AsU32(MEM_SIZE), ptr), One)) IN
         [fault |-> FALSE, ptr |-> Add(ptr, k), done |-> k]

\* AddPtr checking the sum after adding in u32: `ptr + x >= memory.len()`
ExecAddPtrWrappedSum(ptr, x, m) ==
    IF ~Lt(AsU32(Add(ptr, x)), AsU32(MEM_SIZE))
    THEN [fault |-> TRUE, ptr |-> ptr, done |-> Zero]
    ELSE IF m = One
    THEN [fault |-> FALSE, ptr |-> AsU32(Add(ptr, x)), done |-> One]
    ELSE LET k == Min(m, Sub(Sub(AsU32(MEM_SIZE), ptr), One)) IN
         [fault |-> FALSE, ptr |-> Add(ptr, k), done |-> k]

\* BfIR::AddPtr(x): if memory.len() as u32 - ptr <= x { return Err } ptr = ptr + x
ExecAddPtr(ptr, x, m) ==
    IF Le(Sub(AsU32(MEM_SIZE), ptr), x)
    THEN [fault |-> TRUE, ptr |-> ptr, done |-> Zero]
    ELSE IF m = One
    THEN [fault |-> FALSE, ptr |-> Add(ptr, x), done |-> One]
    ELSE \* unit steps succeed while memory.len() - ptr > 1
         LET k == Min(m, Sub(Sub(AsU32(MEM_SIZE), ptr), One)) IN
         [fault |-> FALSE, ptr |-> Add(ptr, k), done |-> k]

\* BfIR::SubPtr(x): if ptr < x { return Err } ptr -= x
ExecSubPtr(ptr, x, m) ==
    IF Lt(ptr, x)
    THEN [fault |-> TRUE, ptr |-> ptr, done |-> Zero]
    ELSE IF m = One
    THEN [fault |-> FALSE, ptr |-> Sub(ptr, x), done |-> One]
    ELSE \* unit steps succeed while ptr >= 1
         LET k == Min(m, ptr) IN
         [fault |-> FALSE, ptr |-> Sub(ptr, k), done |-> k]

\* BfIR::Jz(pos): if memory[ptr] == 0 { pc = pos }; then pc += 1
ExecJz(pc, v, pos) ==
    LET t == IF v = 0 THEN pos ELSE pc IN
    [pc |-> AsU32(Add(t, One)), ovf |-> t = U32Max]

\* BfIR::Jnz(pos): pc = pos - 1; then pc += 1
ExecJnz(pos) ==
    LET t == AsU32(Sub(pos, One)) IN
    [pc |-> AsU32(Add(t, One)), ovf |-> pos = Zero]

(***************************************************************************)
(* jit.rs: VM::compile.  The emitted routine is held as one block per IR   *)
(* element, run-length encoded like the IR: [op, x, n, lab] is n copies of *)
(* the instructions emitted for op, x the immediate, lab the dynamic label *)
(* its jump names.  A position in the routine is the index of a block.     *)
(***************************************************************************)
\* `x as i8`: the u8 operand reinterpreted as the signed imm8
AsI8(x) == IF Low8(x) >= 128 THEN Low8(x) - 256 ELSE Low8(x)

\* `x as i32`: the u32 operand reinterpreted as the imm32 of a 64-bit
\* instruction, which the processor sign-extends to 64 bits
AsI32(x) == IF x[2] >= 32768 THEN <<x[1], x[2], Base - 1, Base - 1>> ELSE x

NoLabel == -1

Block(op, x, n, lab) == [op |-> op, x |-> x, n |-> n, lab |-> lab]

\* a displacement of so many blocks (of 3 bytes or more each) is beyond
\* the rel32 field of a jump
FarAway(d) == ~Lt(d, Num(1073741824))

\* some jump of the routine cannot be encoded: to ->overflow or ->io_error
\* of the epilogue, or to the label of the matching bracket
FarJump(blocks, labels) ==
    \E j \in 1..Len(blocks) :
        LET b == blocks[j]
            at == VecLen(SubSeq(blocks, 1, j - 1))
        IN  CASE b.op \in ValOps -> FALSE
              [] b.op \in {"AddPtr", "SubPtr", "GetByte", "PutByte"} ->
                    FarAway(Sub(VecLen(blocks), at))
              [] OTHER ->
                    /\ b.lab \in DOMAIN labels
                    /\ FarAway(IF Lt(at, labels[b.lab]) THEN Sub(labels[b.lab], at)
                               ELSE Sub(at, labels[b.lab]))

RECURSIVE Emit(_, _, _, _)
\* the `for &ir in code` loop: out the blocks so far, loops the stack of
\* (left, right) labels, labels the positions the labels defined so far
\* stand for.  The Jz and Jnz operands are not used.
Emit(code, out, loops, labels) ==
    IF code = <<>>
    THEN [blocks |-> out, labels |-> labels,
          panic |-> loops # <<>> \/ FarJump(out, labels)]
    ELSE
    LET s == Head(code)
        here == Add(VecLen(out), s.n)
        fresh == 2 * Cardinality({i \in 1..Len(out) : out[i].op = "Jz"})
    IN
    CASE s.op \in ValOps ->
            Emit(Tail(code), Append(out, Block(s.op, AsI8(s.x), s.n, NoLabel)), loops, labels)
      [] s.op \in {"AddPtr", "SubPtr"} ->
            Emit(Tail(code), Append(out, Block(s.op, AsI32(s.x), s.n, NoLabel)), loops, labels)
      [] s.op \in {"GetByte", "PutByte"} ->
            Emit(Tail(code), Append(out, Block(s.op, 0, s.n, NoLabel)), loops, labels)
      [] s.op = "Jz" ->
            LET left == fresh
                right == fresh + 1
            IN  Emit(Tail(code), Append(out, Block("Jz", 0, s.n, right)),
                     Append(loops, <<left, right>>), labels @@ (left :> here))
      [] s.op = "Jnz" ->
            IF loops = <<>> THEN [blocks |-> out, labels |-> labels, panic |-> TRUE]
            ELSE LET top == loops[Len(loops)] IN
                 Emit(Tail(code), Append(out, Block("Jnz", 0, s.n, top[1])),
                      SubSeq(loops, 1, Len(loops) - 1), labels @@ (top[2] :> here))

\* VM::compile(code): the blocks and the label positions; panic when
\* loops.pop().unwrap() meets an empty stack, or when finalize().unwrap()
\* is left with a `right` label that no Jnz defined or with a jump that
\* cannot be encoded
VM_compile(code) == Emit(code, <<>>, <<>>, <<>>)

(***************************************************************************)
(* The instructions of the emitted blocks, on 64-bit registers.  As for    *)
(* the interpreter, a block is applied to the m copies of it that follow   *)
(* in a run (the unit immediates of an unoptimized run when m > 1), and    *)
(* one step holds the copy that jumps to ->overflow alone, or else         *)
(* the copies that pass the checks, `done` of them.                        *)
(***************************************************************************)
\* add BYTE [rcx], imm8
JitAddVal(v, imm, m) == (v + imm * Low8(m)) % 256

\* sub BYTE [rcx], imm8
JitSubVal(v, imm, m) == (v - imm * Low8(m)) % 256

\* add rcx, imm32; jc ->overflow; cmp rcx, r14; jnb ->overflow
JitAddPtr(rcx, r14, imm, m) ==
    LET a == AddC(rcx, imm) IN
    IF a.c = 1 \/ ~Lt(a.v, r14)
    THEN [rcx |-> a.v, overflow |-> TRUE, done |-> Zero]
    ELSE IF m = One
    THEN [rcx |-> a.v, overflow |-> FALSE, done |-> One]
    ELSE \* unit steps pass the checks while rcx + 1 < r14
         LET k == Min(m, Sub(Sub(r14, rcx), One)) IN
         [rcx |-> Add(rcx, k), overflow |-> FALSE, done |-> k]

\* sub rcx, imm32; jc ->overflow; cmp rcx, r13; jb ->overflow
JitSubPtr(rcx, r13, imm, m) ==
    LET d == SubB(rcx, imm) IN
    IF d.c = 1 \/ Lt(d.v, r13)
    THEN [rcx |-> d.v, overflow |-> TRUE, done |-> Zero]
    ELSE IF m = One
    THEN [rcx |-> d.v, overflow |-> FALSE, done |-> One]
    ELSE \* unit steps pass the checks while rcx - 1 >= r13
         LET k == Min(m, Sub(rcx, r13)) IN
         [rcx |-> Sub(rcx, k), overflow |-> FALSE, done |-> k]

(***************************************************************************)
(* Bounds of the model                                                     *)
(***************************************************************************)
\* elements (runs of one character) of a source given to the frontend
MaxSegs == 4
\* elements of a source that is run
MaxProg == 4
\* loop iterations (blocks) of one run() that are explored
MaxSteps == 12
\* bytes the input stream is seen to hold
MaxInput == 2
\* bytes the output stream accepts before it fails
MaxOutput == 2

(***************************************************************************)
(* Inputs: the source file, and the byte streams as they turn out          *)
(***************************************************************************)
Two31 == <<0, 32768, 0, 0>>

\* a run of n characters ch
Run(ch, n) == [ch |-> ch, n |-> n]

SingleChars == {Run(c, One) : c \in Chars}
InstrChars == {Run(c, One) : c \in Chars \ {"\n", "#"}}

\* number of runs of more than one character in s
NumLong(s) == Cardinality({i \in 1..Len(s) : s[i].n # One})

\* the sequences of at most k elements, single characters but for at most
\* one run out of longs
SourcesUpTo(k, singles, longs) ==
    UNION {{s \in [1..j -> singles \cup longs] : NumLong(s) <= 1} : j \in 0..k}

\* the sources given to the frontend
Sources ==
    SourcesUpTo(MaxSegs, SingleChars,
                {Run("+", Num(2)), Run("+", Num(255)), Run("-", Num(256)),
                 Run(">", Two31), Run(">", U32Max), Run("<", Two32),
                 Run("#", U32Max), Run("\n", Two32)})

\* the sources run by the interpreter with and without -o
Programs ==
    SourcesUpTo(MaxProg, InstrChars,
                {Run("+", Num(2)), Run("+", Num(255)), Run("+", Two32),
                 Run(">", Sub(MEM_SIZE, One)), Run("<", Two32)})

\* the sources run by the interpreter and by the emitted routine
JitPrograms ==
    SourcesUpTo(MaxProg, InstrChars,
                {Run("+", Num(255)), Run("+", Two32),
                 Run(">", Sub(MEM_SIZE, One)), Run(">", Two31),
                 Run("<", Two31)})

\* what one read of the input stream gives: a byte, end of input, an error
EndOfInput == -1
ReadError == -2
InBytes == {1}

\* how main runs a file: -i and -o
Config(interpreter, optimize) == [interpreter |-> interpreter, optimize |-> optimize]

(***************************************************************************)
(* The host side of the emitted routine: addresses and register values     *)
(* that the process happens to have                                        *)
(***************************************************************************)
\* where the allocator may put the tape
MemStarts == {<<0, 1, 0, 0>>, <<0, 23552, 32570, 0>>}
\* the VM object, the three callbacks, the boxed error
ThisAddr == <<57344, 65535, 32767, 0>>
GetByteAddr == <<4096, 21845, 21845, 0>>
PutByteAddr == <<4352, 21845, 21845, 0>>
OverflowErrorAddr == <<4608, 21845, 21845, 0>>
ErrorBox == <<2048, 21846, 21845, 0>>
\* what the caller of the routine holds in its registers at the call
CallerRegs ==
    [rax |-> Num(7), rcx |-> Num(11), rdx |-> Num(13), rsi |-> Num(17), rdi |-> Num(19),
     r12 |-> Num(112), r13 |-> Num(113), r14 |-> Num(114), r15 |-> Num(115)]
\* what a callee leaves in a register it need not preserve
Clobbered == <<48879, 57005, 0, 0>>

VARIABLES
    src,              \* the source file
    overflow_checks,  \* the build: "on" panics on integer overflow, "off" wraps; "any" until it matters
    stdin,            \* the items the input stream has given so far, in order
    wrote,            \* writes the output stream is known to accept
    wfail,            \* the write the output stream refuses (0: none seen)
    plan,             \* the ways the file is run, one process after the other
    run,              \* which of plan is running
    results,          \* the outcome of the earlier runs
    st,               \* "start", "running", or how the run ended
    cerr,             \* the CompileError
    code,             \* Interpreter.code / the ir of VM::new
    pc,               \* Interpreter.pc
    ptr,              \* Interpreter.ptr
    memory,           \* the tape
    rd,               \* items of the input stream consumed by this run
    output,           \* bytes written by this run
    steps,            \* loop iterations of this run
    vm,               \* VM: the emitted routine and where the tape is
    cpu               \* the processor while it is in the emitted routine

vars == <<src, overflow_checks, stdin, wrote, wfail, plan, run, results, st, cerr,
          code, pc, ptr, memory, rd, output, steps, vm, cpu>>

cfg == plan[run]

NoVM == [blocks |-> <<>>, labels |-> <<>>, memory_start |-> Zero]

Idle == [rip |-> "idle", idx |-> Zero, pushed |-> <<>>, aligned |-> TRUE,
         err |-> "none", regs |-> CallerRegs]

InitWith(sources, plans) ==
    /\ src \in sources
    /\ plan \in plans
    /\ overflow_checks = "any"
    /\ stdin = <<>>
    /\ wrote = 0
    /\ wfail = 0
    /\ run = 1
    /\ results = <<>>
    /\ st = "start"
    /\ cerr = <<>>
    /\ code = <<>>
    /\ pc = Zero
    /\ ptr = Zero
    /\ memory = ZeroedTape
    /\ rd = 0
    /\ output = <<>>
    /\ steps = 0
    /\ vm = NoVM
    /\ cpu = Idle

\* the interpreter without and with -o, on the same file and streams
Init == InitWith(Programs, {<<Config(TRUE, FALSE), Config(TRUE, TRUE)>>})

\* the interpreter and the emitted routine, on the same file and streams
InitJit == InitWith(JitPrograms, {<<Config(TRUE, o), Config(FALSE, o)>> : o \in BOOLEAN})

\* the builds an overflow can be resolved in
Builds == IF overflow_checks = "any" THEN {"on", "off"} ELSE {overflow_checks}

(***************************************************************************)
(* Interpreter::new / VM::new: read the file, compile, optimize, emit      *)
(***************************************************************************)
\* ir::compile(&src)? followed by `if optimize { ir::optimize_ir(&mut ir) }`
LoadIR(s, optimize) ==
    LET c == compile(s) IN
    IF c.res = "err" THEN [res |-> "Compile", code |-> <<>>, err |-> c.err, ovf |-> c.ovf]
    ELSE IF ~optimize THEN [res |-> "ok", code |-> c.code, err |-> <<>>, ovf |-> c.ovf]
    ELSE LET o == optimize_ir(c.code) IN
         [res |-> IF o.panic THEN "panic" ELSE "ok", code |-> o.code,
          err |-> <<>>, ovf |-> c.ovf]

New ==
    /\ st = "start"
    /\ \E l \in {LoadIR(src, cfg.optimize)} :
       \E e \in {VM_compile(l.code)} :
       \E b \in (IF l.ovf THEN Builds ELSE {overflow_checks}), start \in MemStarts :
          /\ overflow_checks' = b
          /\ IF l.ovf /\ b = "on"
             THEN st' = "panic" /\ code' = <<>> /\ cerr' = <<>> /\ vm' = NoVM
             ELSE IF l.res # "ok"
             THEN st' = l.res /\ code' = <<>> /\ cerr' = l.err /\ vm' = NoVM
             ELSE IF cfg.interpreter
             THEN st' = "running" /\ code' = l.code /\ cerr' = <<>> /\ vm' = NoVM
             ELSE /\ code' = l.code
                  /\ cerr' = <<>>
                  /\ IF e.panic
                     THEN st' = "panic" /\ vm' = NoVM
                     ELSE /\ st' = "running"
                          /\ vm' = [blocks |-> e.blocks, labels |-> e.labels,
                                    memory_start |-> start]
    /\ UNCHANGED <<src, stdin, wrote, wfail, plan, run, results, pc, ptr, memory, rd,
                   output, steps, cpu>>

(***************************************************************************)
(* The byte streams                                                        *)
(***************************************************************************)
\* the input stream has ended or failed: every later read gives the same
Closed == Len(stdin) > 0 /\ stdin[Len(stdin)] \in {EndOfInput, ReadError}

\* the items the next read of the input stream may give
NextReads ==
    IF rd < Len(stdin) THEN {stdin[rd + 1]}
    ELSE IF Closed THEN {stdin[Len(stdin)]}
    ELSE IF Len(stdin) >= MaxInput THEN {EndOfInput}
    ELSE InBytes \cup {EndOfInput, ReadError}

\* the input stream after that read
Reveal(item) == IF rd < Len(stdin) \/ Closed THEN stdin ELSE Append(stdin, item)

\* whether the next write_all of one byte may succeed (TRUE) or fail (FALSE)
NextWrites ==
    LET k == Len(output) + 1 IN
    IF wfail = k THEN {FALSE}
    ELSE IF k <= wrote THEN {TRUE}
    ELSE IF k > MaxOutput THEN {FALSE}
    ELSE {TRUE, FALSE}

\* a read that stores 0 in the cell at end of input
DoReadZeroAtEnd(item, p) ==
    /\ stdin' = Reveal(item)
    /\ rd' = IF item >= 0 THEN rd + 1 ELSE rd
    /\ memory' = IF item >= 0 THEN Store(memory, p, item)
                 ELSE IF item = EndOfInput THEN Store(memory, p, 0)
                 ELSE memory

\* input.read(&mut buf) giving item: the stream and the cell it is stored to
DoRead(item, p) ==
    /\ stdin' = Reveal(item)
    /\ rd' = IF item >= 0 THEN rd + 1 ELSE rd
    /\ memory' = IF item >= 0 THEN Store(memory, p, item) ELSE memory

\* a write that puts the byte before the bytes already written
DoWriteInFront(ok, v) ==
    /\ output' = IF ok THEN <<v>> \o output ELSE output
    /\ wrote' = IF ok /\ Len(output) + 1 > wrote THEN Len(output) + 1 ELSE wrote
    /\ wfail' = IF ok THEN wfail ELSE Len(output) + 1

\* output.write_all(&[v]) succeeding or not
DoWrite(ok, v) ==
    /\ output' = IF ok THEN Append(output, v) ELSE output
    /\ wrote' = IF ok /\ Len(output) + 1 > wrote THEN Len(output) + 1 ELSE wrote
    /\ wfail' = IF ok THEN wfail ELSE Len(output) + 1

(***************************************************************************)
(* Interpreter::run                                                        *)
(***************************************************************************)
code_len == AsU32(VecLen(code))

\* one iteration of `while self.pc < code_len` (m iterations for a run of
\* m equal arithmetic elements)
InterpStep ==
    /\ st = "running" /\ cfg.interpreter
    /\ steps < MaxSteps
    /\ Lt(pc, code_len)
    /\ steps' = steps + 1
    /\ LET i == At(code, pc).s
           m == IF i.op \in ArithOps THEN Min(At(code, pc).rem, Sub(code_len, pc)) ELSE One
           v == Cell(memory, ptr)
       IN
       CASE i.op = "AddVal" ->
                /\ memory' = Store(memory, ptr, ExecAddVal(v, i.x, m))
                /\ pc' = Add(pc, m)
                /\ UNCHANGED <<ptr, st, stdin, rd, output, wrote, wfail, overflow_checks>>
         [] i.op = "SubVal" ->
                /\ memory' = Store(memory, ptr, ExecSubVal(v, i.x, m))
                /\ pc' = Add(pc, m)
                /\ UNCHANGED <<ptr, st, stdin, rd, output, wrote, wfail, overflow_checks>>
         [] i.op \in {"AddPtr", "SubPtr"} ->
                LET r == IF i.op = "AddPtr" THEN ExecAddPtr(ptr, i.x, m)
                         ELSE ExecSubPtr(ptr, i.x, m)
                IN  /\ ptr' = r.ptr
                    /\ pc' = Add(pc, r.done)
                    /\ st' = IF r.fault THEN "PointerOverflow" ELSE st
                    /\ UNCHANGED <<memory, stdin, rd, output, wrote, wfail, overflow_checks>>
         [] i.op = "GetByte" ->
                \E item \in NextReads :
                    /\ DoRead(item, ptr)
                    /\ st' = IF item = ReadError THEN "IO" ELSE st
                    /\ pc' = IF item = ReadError THEN pc ELSE Add(pc, One)
                    /\ UNCHANGED <<ptr, output, wrote, wfail, overflow_checks>>
         [] i.op = "PutByte" ->
                \E ok \in NextWrites :
                    /\ DoWrite(ok, v)
                    /\ st' = IF ok THEN st ELSE "IO"
                    /\ pc' = IF ok THEN Add(pc, One) ELSE pc
                    /\ UNCHANGED <<ptr, memory, stdin, rd, overflow_checks>>
         [] i.op \in {"Jz", "Jnz"} ->
                LET j == IF i.op = "Jz" THEN ExecJz(pc, v, i.x) ELSE ExecJnz(i.x) IN
                \E b \in (IF j.ovf THEN Builds ELSE {overflow_checks}) :
                    /\ overflow_checks' = b
                    /\ st' = IF j.ovf /\ b = "on" THEN "panic" ELSE st
                    /\ pc' = IF j.ovf /\ b = "on" THEN pc ELSE j.pc
                    /\ UNCHANGED <<ptr, memory, stdin, rd, output, wrote, wfail>>
    /\ UNCHANGED <<src, plan, run, results, cerr, code, vm, cpu>>

\* the loop ends: Ok(())
InterpReturn ==
    /\ st = "running" /\ cfg.interpreter
    /\ ~Lt(pc, code_len)
    /\ st' = "ok"
    /\ UNCHANGED <<src, overflow_checks, stdin, wrote, wfail, plan, run, results, cerr,
                   code, pc, ptr, memory, rd, output, steps, vm, cpu>>

(***************************************************************************)
(* VM::run and the emitted routine                                         *)
(***************************************************************************)
memory_end == Add(vm.memory_start, MEM_SIZE)

\* whether the byte at address a is a cell of the tape, and which
InTape(a) == Le(vm.memory_start, a) /\ Lt(a, memory_end)
CellOf(a) == Sub(a, vm.memory_start)

\* rsp is 16-byte aligned: the caller's call left rsp = 8 (mod 16) at entry
Aligned(pushed) == (8 + 8 * Len(pushed)) % 16 = 0

\* the registers after a call of a host callback that returns ret: rax has
\* the result, the registers a callee need not preserve have anything
AfterCall(regs, ret) ==
    [regs EXCEPT !.rax = ret, !.rcx = Clobbered, !.rdx = Clobbered,
                 !.rsi = Clobbered, !.rdi = Clobbered]

\* VM::run: raw_fn(this, memory_start, memory_end)
RunCall ==
    /\ st = "running" /\ ~cfg.interpreter
    /\ cpu.rip = "idle"
    /\ cpu' = [cpu EXCEPT !.rip = "entry",
                          !.regs = [cpu.regs EXCEPT !.rdi = ThisAddr,
                                                    !.rsi = vm.memory_start,
                                                    !.rdx = memory_end]]
    /\ UNCHANGED <<src, overflow_checks, stdin, wrote, wfail, plan, run, results, st, cerr,
                   code, pc, ptr, memory, rd, output, steps, vm>>

\* push rax; mov r12, rdi; mov r13, rsi; mov r14, rdx; mov rcx, rsi
Prologue ==
    /\ st = "running" /\ cpu.rip = "entry"
    /\ cpu' = [cpu EXCEPT !.rip = "body", !.idx = Zero,
                          !.pushed = Append(cpu.pushed, cpu.regs.rax),
                          !.regs = [cpu.regs EXCEPT !.r12 = cpu.regs.rdi,
                                                    !.r13 = cpu.regs.rsi,
                                                    !.r14 = cpu.regs.rdx,
                                                    !.rcx = cpu.regs.rsi]]
    /\ UNCHANGED <<src, overflow_checks, stdin, wrote, wfail, plan, run, results, st, cerr,
                   code, pc, ptr, memory, rd, output, steps, vm>>

\* the block at cpu.idx (the m copies of it for a run of arithmetic blocks)
Body ==
    /\ st = "running" /\ cpu.rip = "body"
    /\ steps < MaxSteps
    /\ Lt(cpu.idx, VecLen(vm.blocks))
    /\ steps' = steps + 1
    /\ LET b == At(vm.blocks, cpu.idx).s
           m == IF b.op \in ArithOps THEN At(vm.blocks, cpu.idx).rem ELSE One
           r == cpu.regs
           next == Add(cpu.idx, m)
       IN
       IF b.op \in {"AddPtr", "SubPtr"}
       THEN LET j == IF b.op = "AddPtr" THEN JitAddPtr(r.rcx, r.r14, b.x, m)
                     ELSE JitSubPtr(r.rcx, r.r13, b.x, m)
            IN  /\ cpu' = [cpu EXCEPT !.regs.rcx = j.rcx,
                                      !.rip = IF j.overflow THEN "overflow" ELSE "body",
                                      !.idx = Add(cpu.idx, j.done)]
                /\ UNCHANGED <<st, memory, stdin, rd, output, wrote, wfail>>
       ELSE IF ~InTape(r.rcx)
       THEN \* [rcx] is not a cell of the tape
            /\ st' = "wild"
            /\ UNCHANGED <<cpu, memory, stdin, rd, output, wrote, wfail>>
       ELSE
       LET p == CellOf(r.rcx)
           v == Cell(memory, p)
       IN
       CASE b.op = "AddVal" ->
                /\ memory' = Store(memory, p, JitAddVal(v, b.x, m))
                /\ cpu' = [cpu EXCEPT !.idx = next]
                /\ UNCHANGED <<st, stdin, rd, output, wrote, wfail>>
         [] b.op = "SubVal" ->
                /\ memory' = Store(memory, p, JitSubVal(v, b.x, m))
                /\ cpu' = [cpu EXCEPT !.idx = next]
                /\ UNCHANGED <<st, stdin, rd, output, wrote, wfail>>
         [] b.op = "GetByte" ->
                \* mov r15, rcx; mov rdi, r12; mov rsi, rcx; mov rax, getbyte;
                \* call rax; test rax, rax; jnz ->io_error; mov rcx, r15
                \E item \in NextReads :
                    LET c == [r EXCEPT !.r15 = r.rcx, !.rdi = r.r12, !.rsi = r.rcx,
                                       !.rax = GetByteAddr]
                        ret == IF item = ReadError THEN ErrorBox ELSE Zero
                        a == AfterCall(c, ret)
                    IN  /\ DoRead(item, CellOf(c.rsi))
                        /\ cpu' = [cpu EXCEPT
                                     !.aligned = cpu.aligned /\ Aligned(cpu.pushed),
                                     !.err = IF ret = Zero THEN cpu.err ELSE "RuntimeIO",
                                     !.rip = IF ret = Zero THEN "body" ELSE "exit",
                                     !.idx = IF ret = Zero THEN next ELSE cpu.idx,
                                     !.regs = IF ret = Zero THEN [a EXCEPT !.rcx = a.r15] ELSE a]
                        /\ UNCHANGED <<st, output, wrote, wfail>>
         [] b.op = "PutByte" ->
                \* mov r15, rcx; mov rdi, r12; mov rsi, rcx; mov rax, putbyte;
                \* call rax; test rax, rax; jnz ->io_error; mov rcx, r15
                \E ok \in NextWrites :
                    LET c == [r EXCEPT !.r15 = r.rcx, !.rdi = r.r12, !.rsi = r.rcx,
                                       !.rax = PutByteAddr]
                        ret == IF ok THEN Zero ELSE ErrorBox
                        a == AfterCall(c, ret)
                    IN  /\ DoWrite(ok, Cell(memory, CellOf(c.rsi)))
                        /\ cpu' = [cpu EXCEPT
                                     !.aligned = cpu.aligned /\ Aligned(cpu.pushed),
                                     !.err = IF ret = Zero THEN cpu.err ELSE "RuntimeIO",
                                     !.rip = IF ret = Zero THEN "body" ELSE "exit",
                                     !.idx = IF ret = Zero THEN next ELSE cpu.idx,
                                     !.regs = IF ret = Zero THEN [a EXCEPT !.rcx = a.r15] ELSE a]
                        /\ UNCHANGED <<st, memory, stdin, rd>>
         [] b.op = "Jz" ->
                \* cmp BYTE [rcx], 0; jz =>right; =>left
                /\ cpu' = [cpu EXCEPT !.idx = IF v = 0 THEN vm.labels[b.lab] ELSE next]
                /\ UNCHANGED <<st, memory, stdin, rd, output, wrote, wfail>>
         [] b.op = "Jnz" ->
                \* cmp BYTE [rcx], 0; jnz =>left; =>right
                /\ cpu' = [cpu EXCEPT !.idx = IF v # 0 THEN vm.labels[b.lab] ELSE next]
                /\ UNCHANGED <<st, memory, stdin, rd, output, wrote, wfail>>
    /\ UNCHANGED <<src, overflow_checks, plan, run, results, cerr, code, pc, ptr, vm>>

\* after the last block: xor rax, rax; jmp >exit
Fallthrough ==
    /\ st = "running" /\ cpu.rip = "body"
    /\ ~Lt(cpu.idx, VecLen(vm.blocks))
    /\ cpu' = [cpu EXCEPT !.rip = "exit", !.regs.rax = Zero]
    /\ UNCHANGED <<src, overflow_checks, stdin, wrote, wfail, plan, run, results, st, cerr,
                   code, pc, ptr, memory, rd, output, steps, vm>>

\* ->overflow: mov rax, QWORD VM::overflow_error; call rax; jmp >exit
OverflowPad ==
    /\ st = "running" /\ cpu.rip = "overflow"
    /\ cpu' = [cpu EXCEPT !.rip = "exit",
                          !.aligned = cpu.aligned /\ Aligned(cpu.pushed),
                          !.err = "PointerOverflow",
                          !.regs = AfterCall([cpu.regs EXCEPT !.rax = OverflowErrorAddr],
                                             ErrorBox)]
    /\ UNCHANGED <<src, overflow_checks, stdin, wrote, wfail, plan, run, results, st, cerr,
                   code, pc, ptr, memory, rd, output, steps, vm>>

\* the exit with `pop rax` for `pop rdx`: the result is overwritten by the
\* value the prologue pushed
ExitPopRax ==
    /\ st = "running" /\ cpu.rip = "exit"
    /\ IF cpu.pushed = <<>>
       THEN st' = "wild" /\ cpu' = cpu
       ELSE /\ cpu' = [cpu EXCEPT !.rip = "ret",
                                  !.pushed = SubSeq(cpu.pushed, 1, Len(cpu.pushed) - 1),
                                  !.regs.rax = cpu.pushed[Len(cpu.pushed)]]
            /\ st' = IF Len(cpu.pushed) # 1 THEN "wild"
                     ELSE IF cpu.pushed[Len(cpu.pushed)] = Zero THEN "ok"
                     ELSE cpu.err
    /\ UNCHANGED <<src, overflow_checks, stdin, wrote, wfail, plan, run, results, cerr,
                   code, pc, ptr, memory, rd, output, steps, vm>>

\* ->io_error: exit: pop rdx; ret -- and VM::run turns rax into its Result
Exit ==
    /\ st = "running" /\ cpu.rip = "exit"
    /\ IF cpu.pushed = <<>>
       THEN \* the return address is popped and ret goes elsewhere
            st' = "wild" /\ cpu' = cpu
       ELSE /\ cpu' = [cpu EXCEPT !.rip = "ret",
                                  !.pushed = SubSeq(cpu.pushed, 1, Len(cpu.pushed) - 1),
                                  !.regs.rdx = cpu.pushed[Len(cpu.pushed)]]
            /\ st' = IF Len(cpu.pushed) # 1 THEN "wild"
                     ELSE IF cpu.regs.rax = Zero THEN "ok"
                     ELSE cpu.err
    /\ UNCHANGED <<src, overflow_checks, stdin, wrote, wfail, plan, run, results, cerr,
                   code, pc, ptr, memory, rd, output, steps, vm>>

(***************************************************************************)
(* main: the process ends; the same file is run again in the next way      *)
(***************************************************************************)
Ended == st \in {"ok", "PointerOverflow", "IO", "RuntimeIO", "Compile", "panic", "wild"}

Outcome == [st |-> st, cerr |-> cerr, output |-> output, memory |-> memory, ptr |-> ptr]

NextRun ==
    /\ Ended
    /\ run < Len(plan)
    /\ run' = run + 1
    /\ results' = Append(results, Outcome)
    /\ st' = "start"
    /\ cerr' = <<>>
    /\ code' = <<>>
    /\ pc' = Zero
    /\ ptr' = Zero
    /\ memory' = ZeroedTape
    /\ rd' = 0
    /\ output' = <<>>
    /\ steps' = 0
    /\ vm' = NoVM
    /\ cpu' = Idle
    /\ UNCHANGED <<src, overflow_checks, stdin, wrote, wfail, plan>>

(***************************************************************************)
(* The frontend alone: compile, then optimize_ir (once, and once more)     *)
(***************************************************************************)
InitFront == InitWith(Sources, {<<>>})

Compile ==
    /\ st = "start"
    /\ \E c \in {compile(src)} :
       \E b \in (IF c.ovf THEN Builds ELSE {overflow_checks}) :
          /\ overflow_checks' = b
          /\ IF c.ovf /\ b = "on"
             THEN st' = "panic" /\ code' = <<>> /\ cerr' = <<>>
             ELSE /\ st' = IF c.res = "ok" THEN "compiled" ELSE "Compile"
                  /\ code' = c.code
                  /\ cerr' = c.err
    /\ UNCHANGED <<src, stdin, wrote, wfail, plan, run, results, pc, ptr, memory, rd,
                   output, steps, vm, cpu>>

Optimize ==
    /\ st \in {"compiled", "optimized"}
    /\ steps < 2
    /\ steps' = steps + 1
    /\ \E o \in {optimize_ir(code)} :
          /\ st' = IF o.panic THEN "panic" ELSE "optimized"
          /\ code' = o.code
    /\ UNCHANGED <<src, overflow_checks, stdin, wrote, wfail, plan, run, results, cerr,
                   pc, ptr, memory, rd, output, vm, cpu>>

NextFront == Compile \/ Optimize

SpecFront == InitFront /\ [][NextFront]_vars

(***************************************************************************)
(* The interpreter with -o on "> ... > + > ... >" and "> ... > + < ... <": *)
(* one pointer move of every size from every place of the tape             *)
(***************************************************************************)
\* places of the tape: both ends and around the limb boundary
PtrPlaces ==
    {Zero, One, Num(2), Num(65535), Num(65536), Sub(MEM_SIZE, Num(2)), Sub(MEM_SIZE, One)}

\* lengths of the second run of moves; 2^32 of them fold to operand 0
PtrMoves ==
    {One, Num(2), Num(255), Num(65535), Num(65536), Sub(MEM_SIZE, One), MEM_SIZE,
     Add(MEM_SIZE, One), Sub(Two31, One), Two31, Sub(Two32, MEM_SIZE),
     Add(Sub(Two32, MEM_SIZE), One), Sub(U32Max, One), U32Max, Two32}

\* p times ">", then "+", then k times ">" or "<", each on its own line
PtrPrograms ==
    {(IF p = Zero THEN <<>> ELSE <<Run(">", p), Run("\n", One)>>)
        \o <<Run("+", One), Run("\n", One), Run(c, k)>> :
        p \in PtrPlaces, c \in {">", "<"}, k \in PtrMoves}

InitPtr == InitWith(PtrPrograms, {<<Config(TRUE, TRUE)>>})

NextPtr == New \/ InterpStep \/ InterpReturn

SpecPtr == InitPtr /\ [][NextPtr]_vars

(***************************************************************************)
(* The interpreter, without and with -o, on a loop followed by a second    *)
(* loop whose body spans two lines                                         *)
(***************************************************************************)
\* the first loop: empty, never entered, or entered once
LoopHeads ==
    {<<Run("[", One), Run("]", One)>>,
     <<Run("[", One), Run("+", One), Run("]", One)>>,
     <<Run("+", One), Run("[", One), Run("-", One), Run("]", One)>>}

\* head, "[", a times f, a newline, b times f, "]", e times "+"
LoopPrograms ==
    {h \o <<Run("[", One), Run(f, a), Run("\n", One), Run(f, b), Run("]", One),
            Run("+", e)>> :
        h \in LoopHeads, f \in {"+", "-"}, a \in {One, Two31},
        b \in {One, Sub(Two31, Num(3)), Sub(Two31, Num(4))},
        e \in {One, Num(2), Num(3)}}

\* the interpreter
Next ==
    \/ New
    \/ InterpStep
    \/ InterpReturn
    \/ NextRun

Spec == Init /\ [][Next]_vars

\* the interpreter on the two loops
InitLoop == InitWith(LoopPrograms, {<<Config(TRUE, FALSE), Config(TRUE, TRUE)>>})

SpecLoop == InitLoop /\ [][Next]_vars

\* the interpreter, then the emitted routine
NextJit ==
    \/ New
    \/ InterpStep
    \/ InterpReturn
    \/ RunCall
    \/ Prologue
    \/ Body
    \/ Fallthrough
    \/ OverflowPad
    \/ Exit
    \/ NextRun

SpecJit == InitJit /\ [][NextJit]_vars


(***************************************************************************)
(* Properties of the runs of the interpreter (Spec)                        *)
(***************************************************************************)
IsPrefix(a, b) == Len(a) <= Len(b) /\ SubSeq(b, 1, Len(a)) = a

\* the run with -o has ended, after the run without it of the same file
SecondEnded == run = 2 /\ Len(results) = 1 /\ Ended

RuntimeFaults == {"PointerOverflow", "IO"}

\* C1: if the interpreter runs the compiled IR to completion without a
\* fault, the interpreter on optimize_ir of that IR, reading the same input,
\* also completes without a fault, with the same output, the same final tape
\* and the same final pointer.
OptimizedRunKeepsResult ==
    (SecondEnded /\ results[1].st = "ok") =>
        /\ st = "ok"
        /\ output = results[1].output
        /\ memory = results[1].memory
        /\ ptr = results[1].ptr

\* C2: if the interpreter on the compiled IR ends in a fault, the
\* interpreter on optimize_ir of that IR ends in a fault of the same
\* category, having written the same output or a prefix of it; so a folded
\* run of AddPtr/SubPtr whose elements raise PointerOverflow still raises it,
\* also when the sum of the operands wraps.
OptimizedRunKeepsFault ==
    (SecondEnded /\ results[1].st \in RuntimeFaults) =>
        /\ st = results[1].st
        /\ IsPrefix(output, results[1].output)

\* C6: in every state of an interpreter run the pointer is in
\* [0, 4194304), and so is every cell that was accessed.
PointerInTape ==
    (cfg.interpreter /\ st # "start") =>
        /\ Lt(ptr, MEM_SIZE)
        /\ \A p \in DOMAIN memory : Lt(p, MEM_SIZE)

\* the pointer has gone to the last cell, which was then written
LastCellWritten ==
    /\ cfg.interpreter /\ st = "ok"
    /\ ptr = Sub(MEM_SIZE, One)
    /\ Cell(memory, ptr) # 0

\* C7: when AddPtr or SubPtr raises PointerOverflow in the interpreter,
\* the pointer and the tape are what they were just before that instruction.
PointerFaultKeepsState ==
    [][(cfg.interpreter /\ st = "running" /\ st' = "PointerOverflow")
          => (ptr' = ptr /\ memory' = memory)]_vars

\* PointerOverflow was raised away from cell 0, with a cell already written
FaultAfterWork ==
    /\ cfg.interpreter /\ st = "PointerOverflow"
    /\ ptr # Zero
    /\ memory # ZeroedTape


(***************************************************************************)
(* Properties of the emitted routine against the interpreter (SpecJit)     *)
(***************************************************************************)
\* the emitted routine has ended, after the interpreter on the same IR
RoutineEnded ==
    /\ SecondEnded
    /\ plan[1].interpreter /\ ~plan[2].interpreter
    /\ plan[1].optimize = plan[2].optimize

\* C3: on the same IR (optimized or not) and the same input, the routine
\* emitted by VM::compile and the interpreter write the same output, and one
\* returns PointerOverflow exactly when the other does, for every operand,
\* as i8 or as i32.
RoutineAgreesWithInterpreter ==
    RoutineEnded =>
        /\ output = results[1].output
        /\ (st = "PointerOverflow") <=> (results[1].st = "PointerOverflow")


(***************************************************************************)
(* Properties of compile and optimize_ir (SpecFront)                       *)
(***************************************************************************)
\* the index in the Vec of the first element of segment j
IndexOf(c, j) == VecLen(SubSeq(c, 1, j - 1))

\* the element at index i is Jz(t) iff the element at index t is Jnz(i),
\* with i < t
JumpsPaired(c) ==
    \A j \in 1..Len(c) :
        LET i == IndexOf(c, j)
            t == c[j].x
        IN  /\ c[j].op = "Jz" =>
                 /\ Lt(i, t) /\ Lt(t, VecLen(c))
                 /\ At(c, t).s.op = "Jnz" /\ At(c, t).s.x = i
            /\ c[j].op = "Jnz" =>
                 /\ Lt(t, i)
                 /\ At(c, t).s.op = "Jz" /\ At(c, t).s.x = i

\* two pairs are disjoint or one is inside the other
WellNested(c) ==
    \A j, k \in {l \in 1..Len(c) : c[l].op = "Jz"} :
        Lt(IndexOf(c, j), IndexOf(c, k)) =>
            Lt(c[j].x, IndexOf(c, k)) \/ Lt(c[k].x, c[j].x)

\* the brackets of the IR, in order
LoopShape(c) == [j \in 1..Len(SelectSeq(c, LAMBDA e : e.op \in {"Jz", "Jnz"})) |->
                    SelectSeq(c, LAMBDA e : e.op \in {"Jz", "Jnz"})[j].op]

\* C4: when compile returns Ok, the Jz and Jnz of the IR are balanced and
\* well-nested and their operands record the pairing: Jz(t) at index i iff
\* Jnz(i) at index t, with i < t, any two pairs disjoint or nested.
CompiledJumpsPaired ==
    st = "compiled" => JumpsPaired(code) /\ WellNested(code)

\* C5: after optimize_ir on an IR produced by compile, the jump operands
\* agree with the compacted positions (Jz(t) at i iff Jnz(i) at t, i < t),
\* the pairs are well-nested, and the loops are those of the input IR in
\* number and nesting.
OptimizedJumpsPaired ==
    (st = "optimized" /\ steps = 1) =>
        /\ JumpsPaired(code) /\ WellNested(code)
        /\ LoopShape(code) = LoopShape(compile(src).code)


\* how many of the characters s[a..b] are ch (a bracket of a source is a
\* segment of its own)
Count(s, ch, a, b) == Cardinality({j \in a..b : s[j].ch = ch})

\* the ']' met while no '[' is open
Strays(s) == {m \in 1..Len(s) : s[m].ch = "]" /\ Count(s, "]", 1, m) > Count(s, "[", 1, m)}

\* the '[' that no later ']' closes
StillOpen(s) ==
    {k \in 1..Len(s) :
        /\ s[k].ch = "["
        /\ \A m \in (k + 1)..Len(s) : Count(s, "]", k + 1, m) <= Count(s, "[", k + 1, m)}

Least(S) == CHOOSE k \in S : \A l \in S : k <= l
Greatest(S) == CHOOSE k \in S : \A l \in S : k >= l

RECURSIVE Chars_(_, _, _)
\* the number of characters of s[a..b]
Chars_(s, a, b) == IF a > b THEN Zero ELSE Add(s[a].n, Chars_(s, a + 1, b))

RECURSIVE Newlines(_, _)
\* the number of newlines before character k
Newlines(s, k) ==
    IF k <= 1 THEN Zero
    ELSE Add(Newlines(s, k - 1), IF s[k - 1].ch = "\n" THEN s[k - 1].n ELSE Zero)

\* the position of character k within its line, from 1
Column(s, k) ==
    LET nl == {j \in 1..(k - 1) : s[j].ch = "\n"} IN
    Add(Chars_(s, IF nl = {} THEN 1 ELSE Greatest(nl) + 1, k - 1), One)

\* some line has 2^32 characters or more (its newline included), or there
\* are 2^32 newlines or more, within s[1..k]
CounterOverflows(s, k) ==
    \/ ~FitsU32(Newlines(s, k + 1))
    \/ \E j \in 1..k : ~FitsU32(IF s[j].ch = "\n" THEN Column(s, j)
                                ELSE Sub(Add(Column(s, j), s[j].n), One))

\* the source ends with a '[' open and has no ']' without a '['
EndsOpen == st # "start" /\ Strays(src) = {} /\ StillOpen(src) # {}

\* C8 as stated: when the source ends with some '[' open (and has no
\* unexpected ']'), compile returns UnclosedLeftBracket at the position of
\* the outermost open '[', the first one opened: line from 0, col from 1.
UnclosedReportsOutermost ==
    EndsOpen =>
        LET k == Least(StillOpen(src)) IN
        /\ st = "Compile"
        /\ cerr = [kind |-> "UncloseLeftBracket",
                   line |-> Newlines(src, k), col |-> Column(src, k)]

\* C8, amended: when the source ends with some '[' open (and has no
\* unexpected ']'), compile returns UnclosedLeftBracket at the position of
\* the innermost open '[', the last one opened: line from 0 and col from 1,
\* both as u32 counters, so modulo 2^32 in a build without overflow checks,
\* while a build with overflow checks panics instead when a counter
\* overflows anywhere in the source.
UnclosedReportsInnermost ==
    EndsOpen =>
        LET k == Greatest(StillOpen(src))
            over == CounterOverflows(src, Len(src))
        IN
        /\ over => overflow_checks \in {"on", "off"}
        /\ IF over /\ overflow_checks = "on"
           THEN st = "panic"
           ELSE /\ st = "Compile"
                /\ cerr = [kind |-> "UncloseLeftBracket",
                           line |-> AsU32(Newlines(src, k)),
                           col |-> AsU32(Column(src, k))]

\* compile has returned UnclosedLeftBracket for a source with two '[' open
\* on different lines
TwoLeftOpen ==
    /\ st = "Compile" /\ cerr.kind = "UncloseLeftBracket"
    /\ Cardinality(StillOpen(src)) >= 2
    /\ Newlines(src, Least(StillOpen(src))) # Newlines(src, Greatest(StillOpen(src)))

\* C9: when some ']' occurs while no '[' is open, compile returns
\* UnexpectedRightBracket for the first such ']', line the number of
\* newlines before it, col its position within its line from 1; no IR is
\* returned, also when a '[' after it is never closed.
StrayReported ==
    (st # "start" /\ Strays(src) # {}) =>
        LET m == Least(Strays(src)) IN
        /\ st = "Compile"
        /\ code = <<>>
        /\ cerr = [kind |-> "UnexpectedRightBracket",
                   line |-> Newlines(src, m), col |-> Column(src, m)]

\* the last element of the run of equal opcodes that starts at c[j]
RunEnd(c, j) == Greatest({e \in j..Len(c) : \A l \in j..e : c[l].op = c[j].op})

RECURSIVE OperandSum(_, _, _)
\* the sum of the operands of c[a..b], where a segment of n > 1 elements
\* holds unit operands
OperandSum(c, a, b) ==
    IF a > b THEN Zero
    ELSE Add(IF c[a].n = One THEN c[a].x ELSE c[a].n, OperandSum(c, a + 1, b))

RECURSIVE Folded(_, _)
\* c[j..] with every maximal run of one arithmetic opcode replaced by one
\* element holding the sum modulo 256 or 2^32; other opcodes kept
Folded(c, j) ==
    IF j > Len(c) THEN <<>>
    ELSE IF c[j].op \in ArithOps
    THEN LET v == OperandSum(c, j, RunEnd(c, j)) IN
         <<<<c[j].op, IF c[j].op \in ValOps THEN Num(Low8(v)) ELSE AsU32(v)>>>>
             \o Folded(c, RunEnd(c, j) + 1)
    ELSE <<<<c[j].op, Zero>>>> \o Folded(c, j + 1)

CurrentOp ==
    IF st # "running" THEN "none"
    ELSE IF cfg.interpreter
    THEN IF Lt(pc, code_len) THEN At(code, pc).s.op ELSE "none"
    ELSE IF cpu.rip = "body" /\ Lt(cpu.idx, VecLen(vm.blocks))
    THEN At(vm.blocks, cpu.idx).s.op
    ELSE "none"

\* the cell the pointer is at: ptr, or rcx as an offset from memory_start
CurrentCell == IF cfg.interpreter THEN ptr ELSE CellOf(cpu.regs.rcx)

\* the run goes on after this step: no error was returned or is on its way
GoesOn ==
    /\ st' = "running"
    /\ ~cfg.interpreter => cpu'.rip = "body" /\ cpu'.err = cpu.err

\* C12: GetByte on an exhausted input leaves the current cell, every other
\* cell and the pointer unchanged and is no error; with a byte available it
\* consumes that byte and stores it in the current cell only.  In the
\* interpreter and in the getbyte callback of the emitted routine.
GetByteFrame ==
    [][(CurrentOp = "GetByte" /\ steps' = steps + 1) =>
          LET item == stdin'[rd + 1]
              p == CurrentCell
          IN  /\ item = EndOfInput =>
                    /\ memory' = memory
                    /\ CurrentCell' = p
                    /\ rd' = rd
                    /\ GoesOn
              /\ item >= 0 =>
                    /\ rd' = rd + 1
                    /\ Cell(memory', p) = item
                    /\ \A q \in (DOMAIN memory \cup DOMAIN memory') \ {p} :
                          Cell(memory', q) = Cell(memory, q)
                    /\ CurrentCell' = p
                    /\ GoesOn]_vars

\* the emitted routine has read a byte and then met the end of input with
\* the last ","
ReadThenEnd ==
    /\ ~cfg.interpreter /\ st = "ok"
    /\ stdin = <<1, EndOfInput>> /\ rd = 1
    /\ src[Len(src)].ch = ","
    /\ Cell(memory, CurrentCell) = 1


\* C13: the output is the sequence of the values of the current cell at
\* the successive PutByte, in execution order, and the k-th GetByte that
\* finds input consumes the k-th byte of the input: no other instruction
\* writes or reads, and nothing is skipped or duplicated.
InputOutputInOrder ==
    [][(st = "running" /\ run' = run) =>
          IF CurrentOp = "PutByte" /\ steps' = steps + 1
          THEN /\ \/ output' = Append(output, Cell(memory, CurrentCell)) /\ GoesOn
                  \/ output' = output /\ ~GoesOn
               /\ rd' = rd /\ stdin' = stdin
          ELSE IF CurrentOp = "GetByte" /\ steps' = steps + 1
          THEN /\ output' = output
               /\ IsPrefix(stdin, stdin')
               /\ \/ rd' = rd /\ stdin'[rd + 1] < 0
                  \/ /\ rd' = rd + 1
                     /\ stdin'[rd + 1] >= 0
                     /\ Cell(memory', CurrentCell) = stdin'[rd + 1]
          ELSE output' = output /\ rd' = rd /\ stdin' = stdin]_vars

\* the emitted routine has read one byte and written two different ones
TwoBytesOut ==
    /\ ~cfg.interpreter /\ st = "ok"
    /\ rd = 1
    /\ Len(output) = 2 /\ output[1] # output[2]


\* PointerOverflow or an I/O error has been raised in this run: returned,
\* or on its way out of the emitted routine
Raised ==
    \/ st \in {"PointerOverflow", "IO", "RuntimeIO"}
    \/ /\ st = "running" /\ ~cfg.interpreter
       /\ \/ cpu.rip = "overflow"
          \/ cpu.rip = "exit" /\ cpu.regs.rax # Zero

\* a run whose first instruction is "<" has returned PointerOverflow, with
\* nothing written
FirstLeftFaults ==
    (src # <<>> /\ src[1].ch = "<" /\ st \in {"ok", "PointerOverflow", "IO", "RuntimeIO"}) =>
        st = "PointerOverflow" /\ output = <<>>

\* once an error is raised nothing more is executed, written or read and
\* the tape and the pointer stay, and the error is what the run returns
ErrorFreezes ==
    (Raised /\ run' = run) =>
        /\ steps' = steps
        /\ memory' = memory /\ output' = output
        /\ rd' = rd /\ stdin' = stdin
        /\ cfg.interpreter => ptr' = ptr /\ pc' = pc
        /\ Raised'

\* C14: the first error of a run ends it: after PointerOverflow or an I/O
\* error no later instruction executes, the tape and the pointer are not
\* changed, nothing more is written or read; a program whose first
\* instruction is "<" returns PointerOverflow with empty output.
FirstErrorEndsRun == [][ErrorFreezes /\ FirstLeftFaults']_vars


\* the characters of the source that compile recognizes
Recognized(s) == SelectSeq(s, LAMBDA e : e.ch \in {"+", "-", ">", "<", ",", ".", "[", "]"})

\* compile has pushed one instruction per recognized character and none for
\* the others, each arithmetic one with operand 1 at the place of its
\* character
OnePerCharacter ==
    /\ VecLen(code) = VecLen(Recognized(src))
    /\ \A j \in 1..Len(code) :
          code[j].op \in ArithOps =>
              /\ code[j].x = One
              /\ CharOp(At(Recognized(src), IndexOf(code, j)).s.ch) = code[j].op

\* C15 as stated: in every IR produced by compile, optimized or not, the
\* operands of AddVal and SubVal are in 1..=255 and those of AddPtr and
\* SubPtr are at least 1; compile emits operand 1 for "+", "-", ">", "<",
\* one instruction per recognized character and none for another.
OperandsAtLeastOne ==
    (st \in {"compiled", "optimized"}) =>
        /\ \A j \in 1..Len(code) :
              /\ code[j].op \in ValOps => Le(One, code[j].x) /\ Le(code[j].x, Num(255))
              /\ code[j].op \in {"AddPtr", "SubPtr"} => Le(One, code[j].x)
        /\ st = "compiled" => OnePerCharacter

\* C15, amended: compile emits operand 1 for "+", "-", ">", "<", one
\* instruction per recognized character and none for another; after
\* optimize_ir the operands of AddVal and SubVal are in 0..=255 and those
\* of AddPtr and SubPtr in 0..=4294967295, 0 included.
OperandsInWidth ==
    (st \in {"compiled", "optimized"}) =>
        /\ \A j \in 1..Len(code) :
              /\ code[j].op \in ValOps => Le(code[j].x, Num(255))
              /\ code[j].op \in {"AddPtr", "SubPtr"} => FitsU32(code[j].x)
        /\ st = "compiled" => OnePerCharacter

\* a run of 256 "-" has been folded to SubVal(0)
ZeroOperand ==
    /\ st = "optimized" /\ steps = 1
    /\ \E j \in 1..Len(code) : code[j].op = "SubVal" /\ code[j].x = Zero


\* the emitted routine has returned to VM::run
Returned == ~cfg.interpreter /\ cpu.rip = "ret"

\* C16: the emitted routine returns null iff execution reached the end of
\* the IR with no fault; it returns non-null exactly when a pointer check
\* went to ->overflow (PointerOverflow) or a callback returned non-null
\* (that error, unchanged); on every exit path the value pushed by the
\* prologue is popped exactly once before ret.
NullIffNoFault ==
    Returned =>
        /\ cpu.regs.rax = Zero <=> cpu.err = "none"
        /\ cpu.regs.rax = Zero => ~Lt(cpu.idx, VecLen(vm.blocks)) /\ st = "ok"
        /\ cpu.regs.rax # Zero =>
              /\ cpu.regs.rax = ErrorBox
              /\ cpu.err \in {"PointerOverflow", "RuntimeIO"}
              /\ st = cpu.err
              /\ Lt(cpu.idx, VecLen(vm.blocks))
        /\ cpu.pushed = <<>>

\* the routine has returned the PointerOverflow error after writing a byte
ReturnedOverflow ==
    /\ Returned
    /\ cpu.regs.rax = ErrorBox /\ cpu.err = "PointerOverflow"
    /\ output # <<>>


(***************************************************************************)
(* Properties of the pointer moves of the interpreter (SpecPtr)            *)
(***************************************************************************)
\* the interpreter is about to execute one element with this opcode
AboutTo(op) == cfg.interpreter /\ CurrentOp = op /\ At(code, pc).s.n = One

\* C17: in the interpreter, for ptr in [0, 4194304) and a 32-bit operand
\* k, AddPtr(k) raises PointerOverflow iff ptr + k >= 4194304 in unbounded
\* integers and otherwise sets ptr to ptr + k; SubPtr(k) raises it iff
\* k > ptr and otherwise sets ptr to ptr - k; neither check overflows or
\* underflows.
PointerMovesExact ==
    [][/\ (AboutTo("AddPtr") /\ steps' = steps + 1) =>
             LET k == At(code, pc).s.x IN
             /\ Lt(ptr, MEM_SIZE) /\ FitsU32(k)
             /\ IF ~Lt(Add(ptr, k), MEM_SIZE)
                THEN st' = "PointerOverflow" /\ ptr' = ptr
                ELSE st' = "running" /\ ptr' = Add(ptr, k)
       /\ (AboutTo("SubPtr") /\ steps' = steps + 1) =>
             LET k == At(code, pc).s.x IN
             /\ Lt(ptr, MEM_SIZE) /\ FitsU32(k)
             /\ IF Lt(ptr, k)
                THEN st' = "PointerOverflow" /\ ptr' = ptr
                ELSE st' = "running" /\ ptr' = Sub(ptr, k)]_vars

\* AddPtr(4294967295) away from cell 0 has raised PointerOverflow: the sum
\* is past 2^32
FaultPastU32 ==
    /\ st = "PointerOverflow" /\ ptr # Zero
    /\ code[Len(code)] = Ins("AddPtr", U32Max, One)


(***************************************************************************)
(* Properties of the jumps of the interpreter (SpecLoop)                   *)
(***************************************************************************)
\* C18: in every run of the interpreter from a zeroed tape pc stays in
\* [0, code length], and no Jnz with operand 0 is executed, so that
\* `pos - 1` never underflows.
JnzZeroNeverRun ==
    [][(cfg.interpreter /\ st = "running" /\ steps' = steps + 1) =>
          /\ ~(CurrentOp = "Jnz" /\ At(code, pc).s.x = Zero)
          /\ Le(pc', VecLen(code))]_vars


\* C19: the emitted routine follows the System V AMD64 calling convention:
\* when it returns, on every exit path, r12, r13, r14 and r15 hold the
\* values they held at its entry, and the stack is 16-byte aligned at
\* every call of a callback.
CalleeSavedKept ==
    ~cfg.interpreter =>
        /\ cpu.aligned
        /\ cpu.rip = "ret" =>
              \A r \in {"r12", "r13", "r14", "r15"} : cpu.regs[r] = CallerRegs[r]


(***************************************************************************)
(* Properties of the text of a compile error (SpecFront)                   *)
(***************************************************************************)
\* C20: the text shown for a compile error identifies its kind: the
\* message rendered for UnexpectedRightBracket differs from the message
\* rendered for UncloseLeftBracket, at the same line and column too.
MessageTellsKind ==
    st = "Compile" =>
        \A k \in CompileErrorKinds \ {cerr.kind} :
            /\ CompileErrorKind_fmt(k) # CompileErrorKind_fmt(cerr.kind)
            /\ CompileError_fmt([cerr EXCEPT !.kind = k]) # CompileError_fmt(cerr)

====
